---- MODULE Spec2Model ----
(***************************************************************************)
(* SEND: a two-peer file transfer application.                             *)
(*                                                                         *)
(* Part 1, the signaling relay.  The repository ships the relay four       *)
(* times, once per deployment target; the variable impl fixes which one a  *)
(* behaviour runs:                                                         *)
(*   "server"    src/server.js (the same relay is in src/unnamed/part_003) *)
(*   "index"     src/server/index.js                                       *)
(*   "joinRoom"  src/unnamed/part_004 (joinRoom, ?sessionId= in the URL)   *)
(*   "durable"   src/unnamed/part_000 (SignalingRoom Durable Object) behind*)
(*               the Worker of src/worker.js                               *)
(***************************************************************************)
EXTENDS Integers, Sequences, FiniteSets, TLC

\* ------------------------------------------------------------------ bounds
NumConns == 3
NumSessions == 2

\* --------------------------------------------------------- program constants
ROOM_CAPACITY == 2

Conns == 1..NumConns
SessionIds == 1..NumSessions
Impls == {"server", "index", "joinRoom", "durable"}

\* JavaScript's undefined / null: a missing field, a variable not yet set.
Undefined == 0
Falsy(x) == x = Undefined

VARIABLES
  impl,         \* the relay implementation that is deployed
  readyState,   \* ws.readyState of every connection
  rooms,        \* const rooms = new Map(): sessionId -> Set of connections
  sessions,     \* this.sessions of the Durable Object of every sessionId
  currentRoom,  \* let currentRoom, the connection handler's closure variable
  wsSession,    \* ws.sessionId (server, joinRoom), ws.roomId (index), the
                \* Durable Object whose handleSession accepted ws (durable)
  ev,           \* the event handled by the last step
  sent          \* per connection, what the last step's handler delivered to it

relayVars == <<impl, readyState, rooms, sessions, currentRoom, wsSession, ev, sent>>

\* Part 2, the chunked transfer: the sender of src/unnamed/part_001 (sender.js)
\* and the receiver of src/public/js/receiver.js, from the moment both data
\* channels (control, file) exist.
VARIABLES
  fileSize,       \* selectedFile.size
  sState,         \* the sender view shown by showState
  offset,         \* let offset of sendFileData
  pendingReads,   \* offsets of the chunks whose chunk.arrayBuffer() is pending
  fileQueue,      \* the file channel's send buffer (bufferedAmount counts it)
  fileWire,       \* file-channel messages transmitted and not yet delivered
  ctrlWire,       \* control-channel messages sent and not yet delivered
  lowArmed,       \* fileChannel.onbufferedamountlow is set
  drainTimer,     \* a setTimeout(waitForDrain, 100) is pending
  sChannelOpen,   \* the sender's data channels are open
  sendLog,        \* the offsets passed to fileChannel.send so far, in order
  fileMeta,       \* let fileMeta of the receiver (its declared size)
  chunks,         \* const chunks of the receiver
  receivedBytes,  \* let receivedBytes of the receiver
  rState,         \* the receiver view shown by showState
  rErr,           \* the two byte counts of the receiver's incomplete-transfer error
  download,       \* the artifact handed to the user (the Blob that a.click() saves)
  rPeerOpen,      \* the receiver's peer connection is open
  sPeer,          \* let peer of the sender is set (its peer connection is open)
  sWs,            \* the sender's signaling WebSocket: open, closing or closed
  rWs,            \* the receiver's signaling WebSocket
  sNote,          \* the relay's peer-left is on its way to the sender
  rNote,          \* the relay's peer-left is on its way to the receiver
  tev             \* the connection event handled in the last step

transferVars ==
  <<fileSize, sState, offset, pendingReads, fileQueue, fileWire, ctrlWire, lowArmed,
    drainTimer, sChannelOpen, sendLog, fileMeta, chunks, receivedBytes, rState, rErr,
    download, rPeerOpen, sPeer, sWs, rWs, sNote, rNote, tev>>

\* Part 3, GET /ice: the credential cache of src/worker.js, of
\* src/unnamed/part_002 (the same cache behind the usage guard of
\* src/usage-guard.js) and of src/unnamed/part_003 (Metered).
VARIABLES
  iceImpl,        \* which of the three GET /ice handlers runs
  keysSet,        \* the issuer's key and secret are configured (env / process.env)
  clock,          \* Date.now(), in ms since the process started
  calls,          \* how many GET /ice requests have been received
  issued,         \* how many credential payloads the issuer has produced
  iceCache,       \* let iceCache
  iceCacheTime,   \* let iceCacheTime
  usageCache,     \* state.storage 'usageCache' of the UsageGuard
  req,            \* the requests in progress: position and locals of each handler
  replied,        \* the reply the usage guard gave in the last step, if it gave one
  served,         \* the request answered in the last step, if one was: locals, response
  cachedBy        \* the issuer call whose reply was last stored: payload, time it began

iceVars ==
  <<iceImpl, keysSet, clock, calls, issued, iceCache, iceCacheTime, usageCache, req,
    replied, served, cachedBy>>

vars == <<relayVars, transferVars, iceVars>>

\* ------------------------------------------------------------------- JSON
\* A frame is a text.  A JSON text is modelled by the value it denotes and its
\* layout; "garbage" is a text JSON.parse throws on.  The number literal 1e999
\* parses to Infinity, which JSON.stringify writes as null.
SignalTypes == {"offer", "answer", "ice-candidate"}

Value(t, sid, rid, body, message) ==
  [type |-> t, sessionId |-> sid, roomId |-> rid, body |-> body, message |-> message]

ParseError == [type |-> "SyntaxError", sessionId |-> Undefined, roomId |-> Undefined,
               body |-> "", message |-> ""]

ParseBody(b) == IF b = "1e999" THEN "Infinity" ELSE b

StringifyBody(b) == IF b = "Infinity" THEN "null" ELSE b

JSONparse(text) ==
  IF text.layout = "garbage" THEN ParseError
  ELSE [text.value EXCEPT !.body = ParseBody(@)]

JSONstringify(v) ==
  [value |-> [v EXCEPT !.body = StringifyBody(@)], layout |-> "compact"]

Text(v, layout) == [value |-> v, layout |-> layout]

\* A 'join' frame carries the session identifier in both spellings the relays
\* read (sessionId, roomId), or in neither.
JoinFrames ==
  {Text(Value("join", s, s, "", ""), "compact") : s \in SessionIds \cup {Undefined}}

SignalFrames ==
  {Text(Value(t, Undefined, Undefined, "sdp", ""), "compact") : t \in SignalTypes}
  \cup {Text(Value("offer", Undefined, Undefined, "sdp", ""), "spaced"),
        Text(Value("offer", Undefined, Undefined, "1e999", ""), "compact")}

OtherFrames ==
  {Text(Value("ping", Undefined, Undefined, "", ""), "compact"),
   Text(ParseError, "garbage")}

Frames == JoinFrames \cup SignalFrames \cup OtherFrames

\* JSON.stringify({ type, message }) of a message the relay itself injects.
Injected(t, message) == JSONstringify(Value(t, Undefined, Undefined, "", message))

NoData == Text(Value("", Undefined, Undefined, "", ""), "none")

\* ---------------------------------------------------------------- sending
NoSends == [x \in Conns |-> <<>>]

\* peer.send(data) of the ws library / the Workers runtime on each peer of S:
\* the frame reaches the client only while the socket is OPEN; on a socket that
\* is closing or closed nothing is delivered (an exception, if any, is swallowed).
WsSendEach(S, data) ==
  [x \in Conns |-> IF x \in S /\ readyState[x] = "OPEN" THEN <<data>> ELSE <<>>]

Event(kind, c, data, url, status) ==
  [kind |-> kind, conn |-> c, data |-> data, url |-> url, status |-> status]

\* --------------------------------------------------------------- registry
Range(s) == {s[i] : i \in 1..Len(s)}

FilterNothing(s, c) == s

Filter(s, c) == SelectSeq(s, LAMBDA x : x # c)

RoomsHas(sid) == sid \in DOMAIN rooms

RoomsGet(sid) == IF RoomsHas(sid) THEN rooms[sid] ELSE {}

RoomsSet(m, sid, room) ==
  [s \in DOMAIN m \cup {sid} |-> IF s = sid THEN room ELSE m[s]]

RoomsDelete(m, sid) == [s \in DOMAIN m \ {sid} |-> m[s]]

\* The participants the registry holds for a session identifier.
Members(sid) == IF impl = "durable" THEN Range(sessions[sid]) ELSE RoomsGet(sid)

\* The session the relay's handlers use for a connection.
CurrentSession(c) ==
  CASE impl = "server" -> currentRoom[c]
    [] impl = "index" -> wsSession[c]
    [] impl = "joinRoom" -> IF Falsy(currentRoom[c]) THEN wsSession[c] ELSE currentRoom[c]
    [] OTHER -> wsSession[c]

\* -------------------------------------------------------------- server.js
RoomIsFullOffByOne(room) == Cardinality(room) > ROOM_CAPACITY

RoomIsFull(room) == Cardinality(room) >= ROOM_CAPACITY

SendToAllOpenPeers(room, c, data) ==
  WsSendEach({p \in room : readyState[p] = "OPEN"}, data)

\* room.forEach(peer => { if (peer !== ws && peer.readyState === 1) peer.send(data) })
SendToOtherOpenPeers(room, c, data) ==
  WsSendEach({p \in room : p # c /\ readyState[p] = "OPEN"}, data)

\* function joinRoom(ws, sessionId) of part_004; server.js has the same code
\* inline in case 'join'.  The result is the sessionId joined, or Undefined.
JoinRoomResult(c, sid) ==
  IF Falsy(sid) \/ RoomIsFull(RoomsGet(sid)) THEN Undefined ELSE sid

JoinRoomRooms(c, sid) ==
  IF Falsy(sid) THEN rooms
  ELSE IF RoomIsFull(RoomsGet(sid)) THEN RoomsSet(rooms, sid, RoomsGet(sid))
  ELSE RoomsSet(rooms, sid, RoomsGet(sid) \cup {c})

JoinRoomSendsBroadcast(c, sid) ==
  IF Falsy(sid) THEN NoSends
  ELSE IF RoomIsFull(RoomsGet(sid))
       THEN WsSendEach(RoomsGet(sid) \cup {c}, Injected("error", "room-full"))
  ELSE IF Cardinality(RoomsGet(sid) \cup {c}) = 2
       THEN SendToOtherOpenPeers(RoomsGet(sid) \cup {c}, c, Injected("receiver-joined", ""))
       ELSE NoSends

JoinRoomSends(c, sid) ==
  IF Falsy(sid) THEN NoSends
  ELSE IF RoomIsFull(RoomsGet(sid)) THEN WsSendEach({c}, Injected("error", "room-full"))
  ELSE IF Cardinality(RoomsGet(sid) \cup {c}) = 2
       THEN SendToOtherOpenPeers(RoomsGet(sid) \cup {c}, c, Injected("receiver-joined", ""))
       ELSE NoSends

ServerJoin(c, sid) ==
  /\ rooms' = JoinRoomRooms(c, sid)
  /\ sent' = JoinRoomSends(c, sid)
  /\ IF Falsy(JoinRoomResult(c, sid))
     THEN UNCHANGED <<currentRoom, wsSession>>
     ELSE /\ currentRoom' = [currentRoom EXCEPT ![c] = sid]
          /\ wsSession' = [wsSession EXCEPT ![c] = sid]

\* case 'offer' / 'answer' / 'ice-candidate': peer.send(JSON.stringify(msg))
ServerRelaySends(c, roomId, msg) ==
  IF Falsy(roomId) \/ ~RoomsHas(roomId) THEN NoSends
  ELSE SendToOtherOpenPeers(rooms[roomId], c, JSONstringify(msg))

ServerMessage(c, data) ==
  /\ impl = "server"
  /\ readyState[c] = "OPEN"
  /\ ev' = Event("message", c, data, Undefined, 0)
  /\ UNCHANGED <<impl, readyState, sessions>>
  /\ LET msg == JSONparse(data) IN
     IF msg = ParseError THEN
       /\ sent' = NoSends
       /\ UNCHANGED <<rooms, currentRoom, wsSession>>
     ELSE IF msg.type = "join" THEN ServerJoin(c, msg.sessionId)
     ELSE IF msg.type \in SignalTypes THEN
       /\ sent' = ServerRelaySends(c, currentRoom[c], msg)
       /\ UNCHANGED <<rooms, currentRoom, wsSession>>
     ELSE
       /\ sent' = NoSends
       /\ UNCHANGED <<rooms, currentRoom, wsSession>>

\* ws.on('close') of server.js and of part_004, for the room the handler names.
ServerCloseRooms(c, roomId) ==
  IF Falsy(roomId) \/ ~RoomsHas(roomId) THEN rooms
  ELSE IF rooms[roomId] \ {c} = {} THEN RoomsDelete(rooms, roomId)
  ELSE RoomsSet(rooms, roomId, rooms[roomId] \ {c})

ServerCloseSendsEveryRoom(c, roomId) ==
  IF Falsy(roomId) \/ ~RoomsHas(roomId) THEN NoSends
  ELSE WsSendEach(UNION {rooms[r] : r \in DOMAIN rooms} \ {c},
                  Injected("peer-disconnected", ""))

ServerCloseSends(c, roomId) ==
  IF Falsy(roomId) \/ ~RoomsHas(roomId) THEN NoSends
  ELSE WsSendEach({p \in rooms[roomId] \ {c} : readyState[p] = "OPEN"},
                  Injected("peer-disconnected", ""))

\* ---------------------------------------------------------- server/index.js
IndexJoinSends(c, roomId) ==
  IF Falsy(roomId) THEN NoSends
  ELSE IF RoomsHas(roomId) /\ RoomIsFull(rooms[roomId])
       THEN WsSendEach({c}, Injected("error", "Room is full"))
  ELSE IF Cardinality(RoomsGet(roomId) \cup {c}) = 2
       THEN WsSendEach(RoomsGet(roomId) \cup {c}, Injected("peer-joined", ""))
       ELSE NoSends

IndexJoin(c, roomId) ==
  /\ sent' = IndexJoinSends(c, roomId)
  /\ UNCHANGED currentRoom
  /\ IF Falsy(roomId) \/ (RoomsHas(roomId) /\ RoomIsFull(rooms[roomId]))
     THEN UNCHANGED <<rooms, wsSession>>
     ELSE /\ wsSession' = [wsSession EXCEPT ![c] = roomId]
          /\ rooms' = RoomsSet(rooms, roomId, RoomsGet(roomId) \cup {c})

IndexRelaySendsEcho(c, msg) ==
  IF ~RoomsHas(wsSession[c]) THEN NoSends
  ELSE WsSendEach(rooms[wsSession[c]], JSONstringify(msg))

IndexRelaySends(c, msg) ==
  IF ~RoomsHas(wsSession[c]) THEN NoSends
  ELSE SendToOtherOpenPeers(rooms[wsSession[c]], c, JSONstringify(msg))

IndexMessage(c, data) ==
  /\ impl = "index"
  /\ readyState[c] = "OPEN"
  /\ ev' = Event("message", c, data, Undefined, 0)
  /\ UNCHANGED <<impl, readyState, sessions>>
  /\ LET msg == JSONparse(data) IN
     IF msg = ParseError THEN
       /\ sent' = NoSends
       /\ UNCHANGED <<rooms, currentRoom, wsSession>>
     ELSE IF msg.type = "join" THEN IndexJoin(c, msg.roomId)
     ELSE IF msg.type \in SignalTypes THEN
       /\ sent' = IndexRelaySends(c, msg)
       /\ UNCHANGED <<rooms, currentRoom, wsSession>>
     ELSE
       /\ sent' = NoSends
       /\ UNCHANGED <<rooms, currentRoom, wsSession>>

IndexCloseRooms(c) ==
  IF Falsy(wsSession[c]) \/ ~RoomsHas(wsSession[c]) THEN rooms
  ELSE IF rooms[wsSession[c]] \ {c} = {} THEN RoomsDelete(rooms, wsSession[c])
  ELSE RoomsSet(rooms, wsSession[c], rooms[wsSession[c]] \ {c})

IndexCloseSends(c) ==
  IF Falsy(wsSession[c]) \/ ~RoomsHas(wsSession[c]) THEN NoSends
  ELSE WsSendEach(rooms[wsSession[c]] \ {c}, Injected("peer-left", ""))

\* ------------------------------------------------------ part_004 (joinRoom)
JoinRoom(c, sid) ==
  /\ rooms' = JoinRoomRooms(c, sid)
  /\ sent' = JoinRoomSends(c, sid)
  /\ currentRoom' = [currentRoom EXCEPT ![c] = JoinRoomResult(c, sid)]
  /\ IF Falsy(JoinRoomResult(c, sid))
     THEN UNCHANGED wsSession
     ELSE wsSession' = [wsSession EXCEPT ![c] = sid]

JoinRoomMessage(c, data) ==
  /\ impl = "joinRoom"
  /\ readyState[c] = "OPEN"
  /\ ev' = Event("message", c, data, Undefined, 0)
  /\ UNCHANGED <<impl, readyState, sessions>>
  /\ LET msg == JSONparse(data) IN
     IF msg = ParseError THEN
       /\ sent' = NoSends
       /\ UNCHANGED <<rooms, currentRoom, wsSession>>
     ELSE IF msg.type = "join" THEN
       IF Falsy(currentRoom[c]) THEN JoinRoom(c, msg.sessionId)
       ELSE /\ sent' = NoSends
            /\ UNCHANGED <<rooms, currentRoom, wsSession>>
     ELSE IF msg.type \in SignalTypes THEN
       /\ sent' = ServerRelaySends(c, CurrentSession(c), msg)
       /\ UNCHANGED <<rooms, currentRoom, wsSession>>
     ELSE
       /\ sent' = NoSends
       /\ UNCHANGED <<rooms, currentRoom, wsSession>>

\* ------------------------------------------- part_000 (SignalingRoom) + Worker
\* handleSession: const isSecondPeer = this.sessions.length === 1; push;
\* if (isSecondPeer) this.sessions[0].send('receiver-joined').
HandleSessionSends(sid) ==
  IF Len(sessions[sid]) = 1
  THEN WsSendEach({sessions[sid][1]}, Injected("receiver-joined", ""))
  ELSE NoSends

\* The message listener relays event.data itself, whatever it is.
DurableRelaySendsEcho(c, data) == WsSendEach(Range(sessions[wsSession[c]]), data)

DurableRelaySendsParsed(c, data) ==
  IF JSONparse(data) = ParseError THEN NoSends
  ELSE WsSendEach(Range(sessions[wsSession[c]]) \ {c}, data)

DurableRelaySends(c, data) == WsSendEach(Range(sessions[wsSession[c]]) \ {c}, data)

DurableMessage(c, data) ==
  /\ impl = "durable"
  /\ readyState[c] = "OPEN"
  /\ ev' = Event("message", c, data, Undefined, 0)
  /\ sent' = DurableRelaySends(c, data)
  /\ UNCHANGED <<impl, readyState, rooms, sessions, currentRoom, wsSession>>

DurableCloseSends(c) ==
  WsSendEach(Range(sessions[wsSession[c]]) \ {c}, Injected("peer-disconnected", ""))

\* ------------------------------------------------------------ the actions
\* A client opens a connection; url is the ?sessionId= of the request, which
\* only part_004 and the Worker read.  Connections are numbered in the order
\* in which they are opened.
Connect(c, url) ==
  /\ readyState[c] = "CONNECTING"
  /\ \A b \in Conns : b < c => readyState[b] # "CONNECTING"
  /\ UNCHANGED impl
  /\ CASE impl \in {"server", "index"} ->
            /\ Falsy(url)
            /\ readyState' = [readyState EXCEPT ![c] = "OPEN"]
            /\ ev' = Event("connection", c, NoData, url, 101)
            /\ sent' = NoSends
            /\ UNCHANGED <<rooms, sessions, currentRoom, wsSession>>
       [] impl = "joinRoom" ->
            /\ readyState' = [readyState EXCEPT ![c] = "OPEN"]
            /\ ev' = Event("connection", c, NoData, url, 101)
            /\ IF Falsy(url)
               THEN /\ sent' = NoSends
                    /\ UNCHANGED <<rooms, currentRoom, wsSession>>
               ELSE /\ rooms' = JoinRoomRooms(c, url)
                    /\ sent' = [JoinRoomSends(c, url) EXCEPT ![c] =
                                  IF RoomIsFull(RoomsGet(url))
                                  THEN <<Injected("error", "room-full")>> ELSE <<>>]
                    /\ currentRoom' = [currentRoom EXCEPT ![c] = JoinRoomResult(c, url)]
                    /\ IF Falsy(JoinRoomResult(c, url))
                       THEN UNCHANGED wsSession
                       ELSE wsSession' = [wsSession EXCEPT ![c] = url]
            /\ UNCHANGED sessions
       [] OTHER ->
            /\ UNCHANGED <<rooms, currentRoom>>
            /\ IF Falsy(url) THEN
                 /\ ev' = Event("connection", c, NoData, url, 400)
                 /\ sent' = NoSends
                 /\ UNCHANGED <<readyState, sessions, wsSession>>
               ELSE IF Len(sessions[url]) >= ROOM_CAPACITY THEN
                 /\ ev' = Event("connection", c, Injected("error", "room-full"), url, 409)
                 /\ sent' = NoSends
                 /\ UNCHANGED <<readyState, sessions, wsSession>>
               ELSE
                 /\ ev' = Event("connection", c, NoData, url, 101)
                 /\ sent' = HandleSessionSends(url)
                 /\ sessions' = [sessions EXCEPT ![url] = Append(@, c)]
                 /\ readyState' = [readyState EXCEPT ![c] = "OPEN"]
                 /\ wsSession' = [wsSession EXCEPT ![c] = url]

Message(c, data) ==
  \/ ServerMessage(c, data)
  \/ IndexMessage(c, data)
  \/ JoinRoomMessage(c, data)
  \/ DurableMessage(c, data)

\* The socket starts to close (the client closes it, the network drops, the
\* heartbeat of server/index.js terminates it): readyState leaves OPEN before
\* the 'close' event is dispatched.
BeginClose(c) ==
  /\ readyState[c] = "OPEN"
  /\ readyState' = [readyState EXCEPT ![c] = "CLOSING"]
  /\ ev' = Event("closing", c, NoData, Undefined, 0)
  /\ sent' = NoSends
  /\ UNCHANGED <<impl, rooms, sessions, currentRoom, wsSession>>

\* The 'error' event of a connection.  The express relays only log it; the
\* Durable Object removes the socket from this.sessions and notifies nobody.
Error(c) ==
  /\ readyState[c] \in {"OPEN", "CLOSING"}
  /\ readyState' = [readyState EXCEPT ![c] = "CLOSING"]
  /\ ev' = Event("error", c, NoData, Undefined, 0)
  /\ sent' = NoSends
  /\ sessions' = IF impl = "durable"
                 THEN [sessions EXCEPT ![wsSession[c]] = Filter(@, c)]
                 ELSE sessions
  /\ UNCHANGED <<impl, rooms, currentRoom, wsSession>>

\* The 'close' event of a connection.
Close(c) ==
  /\ readyState[c] = "CLOSING"
  /\ readyState' = [readyState EXCEPT ![c] = "CLOSED"]
  /\ ev' = Event("close", c, NoData, Undefined, 0)
  /\ UNCHANGED <<impl, currentRoom, wsSession>>
  /\ CASE impl \in {"server", "joinRoom"} ->
            /\ rooms' = ServerCloseRooms(c, CurrentSession(c))
            /\ sent' = ServerCloseSends(c, CurrentSession(c))
            /\ UNCHANGED sessions
       [] impl = "index" ->
            /\ rooms' = IndexCloseRooms(c)
            /\ sent' = IndexCloseSends(c)
            /\ UNCHANGED sessions
       [] OTHER ->
            /\ sessions' = [sessions EXCEPT ![wsSession[c]] = Filter(@, c)]
            /\ sent' = DurableCloseSends(c)
            /\ UNCHANGED rooms

RelayInit ==
  /\ impl \in Impls
  /\ readyState = [c \in Conns |-> "CONNECTING"]
  /\ rooms = [s \in {} |-> {}]
  /\ sessions = [s \in SessionIds |-> <<>>]
  /\ currentRoom = [c \in Conns |-> Undefined]
  /\ wsSession = [c \in Conns |-> Undefined]
  /\ ev = Event("init", Undefined, NoData, Undefined, 0)
  /\ sent = NoSends

RelayNext ==
  \/ \E c \in Conns, url \in SessionIds \cup {Undefined} : Connect(c, url) /\ UNCHANGED <<transferVars, iceVars>>
  \/ \E c \in Conns, data \in Frames : Message(c, data) /\ UNCHANGED <<transferVars, iceVars>>
  \/ \E c \in Conns : BeginClose(c) /\ UNCHANGED <<transferVars, iceVars>>
  \/ \E c \in Conns : Error(c) /\ UNCHANGED <<transferVars, iceVars>>
  \/ \E c \in Conns : Close(c) /\ UNCHANGED <<transferVars, iceVars>>

\* ------------------------------------------------------ chunked transfer
\* ---- bounds
\* Files of up to MaxChunks chunks are transferred under every completion
\* order of the chunk reads; one larger file of BigChunks chunks, whose reads
\* complete in offset order, fills the send buffer beyond the high-water mark.
MaxChunks == 3
BigChunks == 66
\* At most MaxInFlight file-channel messages are in the network at a time.
MaxInFlight == 2

\* ---- program constants
CHUNK_SIZE == 16384
HIGH_WATER_MARK == 1048576
LOW_WATER_MARK == 262144

Min(a, b) == IF a < b THEN a ELSE b

FileSizes ==
  {0, 1}
  \cup {k * CHUNK_SIZE + r : k \in 1..(MaxChunks - 1), r \in {0, 1}}
  \cup {BigChunks * CHUNK_SIZE}

ChunkEndUnclamped(off) == off + CHUNK_SIZE

\* const end = Math.min(offset + CHUNK_SIZE, selectedFile.size)
ChunkEnd(off) == Min(off + CHUNK_SIZE, fileSize)

\* byteLength of the chunk selectedFile.slice(off, end)
ChunkLen(off) == ChunkEnd(off) - off

NumChunks(size) == (size + CHUNK_SIZE - 1) \div CHUNK_SIZE

\* The total byteLength of the chunks q[lo..hi] (halving keeps the evaluation
\* shallow for long queues).
RECURSIVE SumRange(_, _, _)
SumRange(q, lo, hi) ==
  IF lo > hi THEN 0
  ELSE IF lo = hi THEN ChunkLen(q[lo])
  ELSE LET mid == (lo + hi) \div 2
       IN SumRange(q, lo, mid) + SumRange(q, mid + 1, hi)

SumLen(q) == SumRange(q, 1, Len(q))

\* fileChannel.bufferedAmount
BufferedAmount == SumLen(fileQueue)

MetaMsg == [type |-> "file-meta", size |-> fileSize]
CompleteMsg == [type |-> "file-complete", size |-> 0]
NoMeta == [type |-> "none", size |-> 0]
NoDownload == [made |-> FALSE, bytes |-> 0, parts |-> <<>>]
NoErr == <<>>

\* The offsets the while loop of sendNextChunk visits from off to the end of
\* the file: off, off + CHUNK_SIZE, ...
LoopOffsets(off) ==
  {off + k * CHUNK_SIZE : k \in 0..(NumChunks(fileSize - off) - 1)}

\* The while loop of sendNextChunk, run to its end.  Each iteration tests
\* bufferedAmount, then starts a chunk read (chunk.arrayBuffer() returns a
\* promise whose callback runs in a later task) and advances offset.  Nothing
\* is sent inside the loop, so bufferedAmount is the same in every iteration:
\* the loop pauses at its first iteration or runs to the end of the file.
SendLoop(off, reads, buffered) ==
  IF off < fileSize /\ buffered > HIGH_WATER_MARK
  THEN [offset |-> off, reads |-> reads, paused |-> TRUE]
  ELSE [offset |-> IF off < fileSize THEN fileSize ELSE off,
        reads |-> reads \cup (IF off < fileSize THEN LoopOffsets(off) ELSE {}),
        paused |-> FALSE]

DrainedNever(buffered) == FALSE

\* waitForDrain: if (fileChannel.bufferedAmount === 0)
Drained(buffered) == buffered = 0

\* sendNextChunk(), called with `ctrl` the control channel's messages in
\* flight, `buffered` the file channel's bufferedAmount and `shown` the view
\* on display: the loop, then either the one-shot onbufferedamountlow callback
\* is armed (the loop paused) or waitForDrain runs.
SendNextChunk(ctrl, buffered, shown) ==
  LET r == SendLoop(offset, pendingReads, buffered) IN
  /\ offset' = r.offset
  /\ pendingReads' = r.reads
  /\ lowArmed' = r.paused
  /\ drainTimer' = (~r.paused /\ ~Drained(buffered))
  /\ ctrlWire' = IF ~r.paused /\ Drained(buffered) THEN Append(ctrl, CompleteMsg) ELSE ctrl
  /\ sState' = IF ~r.paused /\ Drained(buffered) THEN "complete" ELSE shown

\* The event a connection handler was called with; "none" in the steps of
\* the data path.
ConnEvent(kind, side, state) == [kind |-> kind, side |-> side, state |-> state]
NoEvent == ConnEvent("none", "none", "none")

\* pc.iceConnectionState as oniceconnectionstatechange reports it.
IceStates == {"disconnected", "failed"}

AbortsOnFailedOnly(state) == state = "failed"

\* if (state === 'failed' || state === 'disconnected')
Aborts(state) == state = "failed" \/ state = "disconnected"

\* SignalingClient.close(): this.ws.close(); the socket's onclose handler stays
\* attached and runs when the closing handshake is over.
WsAfterClose(ws) == IF ws = "open" THEN "closing" ELSE ws

SenderCleanupKeepsChannel ==
  /\ sPeer' = FALSE
  /\ sChannelOpen' = sChannelOpen
  /\ sWs' = WsAfterClose(sWs)

\* cleanup() of the sender: peer.close(); peer = null; signaling.close().
SenderCleanup ==
  /\ sPeer' = FALSE
  /\ sChannelOpen' = FALSE
  /\ sWs' = WsAfterClose(sWs)

\* cleanup() of the receiver.
ReceiverCleanup ==
  /\ rPeerOpen' = FALSE
  /\ rWs' = WsAfterClose(rWs)

\* fileChannel.onopen: showState(senderTransferring); sendFileData(...), which
\* sends file-meta on the control channel and calls sendNextChunk().
FileChannelOpen ==
  /\ sState = "ready"
  /\ ~sChannelOpen
  /\ sPeer
  /\ rPeerOpen
  /\ sChannelOpen' = TRUE
  /\ SendNextChunk(Append(ctrlWire, MetaMsg), BufferedAmount, "transferring")
  /\ tev' = NoEvent
  /\ UNCHANGED <<fileSize, fileQueue, fileWire, sendLog, fileMeta, chunks,
                 receivedBytes, rState, rErr, download, rPeerOpen, sPeer, sWs, rWs,
                 sNote, rNote>>

\* The reads of a file of more than MaxChunks chunks complete in offset order.
MayComplete(off) ==
  /\ off \in pendingReads
  /\ NumChunks(fileSize) > MaxChunks => \A o \in pendingReads : off <= o

\* chunk.arrayBuffer().then(buffer => { try { fileChannel.send(buffer) }
\* catch { showError('Transfer failed.') } }); showError calls cleanup().
ReadDone(off) ==
  /\ MayComplete(off)
  /\ pendingReads' = pendingReads \ {off}
  /\ IF sChannelOpen THEN
       /\ fileQueue' = Append(fileQueue, off)
       /\ sendLog' = Append(sendLog, off)
       /\ UNCHANGED <<sState, sChannelOpen, sPeer, sWs>>
     ELSE
       /\ sState' = "error"
       /\ SenderCleanup
       /\ UNCHANGED <<fileQueue, sendLog>>
  /\ tev' = NoEvent
  /\ UNCHANGED <<fileSize, offset, fileWire, ctrlWire, lowArmed, drainTimer, fileMeta,
                 chunks, receivedBytes, rState, rErr, download, rPeerOpen, rWs, sNote,
                 rNote>>

\* The transport takes the oldest buffered message off the send buffer.  When
\* bufferedAmount falls from above bufferedAmountLowThreshold to it or below,
\* bufferedamountlow fires: the one-shot callback, if set, clears itself and
\* calls sendNextChunk().
Transmit ==
  /\ sChannelOpen
  /\ fileQueue # <<>>
  /\ Len(fileWire) < MaxInFlight
  /\ fileQueue' = Tail(fileQueue)
  /\ fileWire' = Append(fileWire, Head(fileQueue))
  /\ IF /\ lowArmed
        /\ BufferedAmount > LOW_WATER_MARK
        /\ SumLen(Tail(fileQueue)) <= LOW_WATER_MARK
     THEN SendNextChunk(ctrlWire, SumLen(Tail(fileQueue)), sState)
     ELSE UNCHANGED <<offset, pendingReads, lowArmed, drainTimer, ctrlWire, sState>>
  /\ tev' = NoEvent
  /\ UNCHANGED <<fileSize, sChannelOpen, sendLog, fileMeta, chunks, receivedBytes,
                 rState, rErr, download, rPeerOpen, sPeer, sWs, rWs, sNote, rNote>>

ReceivedOnlyAfterMeta(bytes, msg) ==
  IF fileMeta # NoMeta THEN bytes + ChunkLen(msg) ELSE bytes

\* receivedBytes += event.data.byteLength
Received(bytes, msg) == bytes + ChunkLen(msg)

\* The receiver's file channel onmessage.
RecvChunk ==
  /\ rPeerOpen
  /\ fileWire # <<>>
  /\ fileWire' = Tail(fileWire)
  /\ chunks' = Append(chunks, Head(fileWire))
  /\ receivedBytes' = Received(receivedBytes, Head(fileWire))
  /\ tev' = NoEvent
  /\ UNCHANGED <<fileSize, sState, offset, pendingReads, fileQueue, ctrlWire, lowArmed,
                 drainTimer, sChannelOpen, sendLog, fileMeta, rState, rErr, download,
                 rPeerOpen, sPeer, sWs, rWs, sNote, rNote>>

SizeMismatchOnlyIfMore(meta, received) == meta # NoMeta /\ received > meta.size

\* if (fileMeta && receivedBytes !== fileMeta.size)
SizeMismatch(meta, received) == meta # NoMeta /\ received # meta.size

\* The receiver's control channel onmessage.
RecvControl ==
  /\ rPeerOpen
  /\ ctrlWire # <<>>
  /\ ctrlWire' = Tail(ctrlWire)
  /\ LET msg == Head(ctrlWire) IN
     IF msg.type = "file-meta" THEN
       /\ fileMeta' = msg
       /\ rState' = "receiving"
       /\ UNCHANGED <<rErr, download, rPeerOpen, rWs>>
     ELSE IF SizeMismatch(fileMeta, receivedBytes) THEN
       \* showError(`Transfer incomplete: received ... of ...`); cleanup()
       /\ rState' = "error"
       /\ rErr' = <<receivedBytes, fileMeta.size>>
       /\ ReceiverCleanup
       /\ UNCHANGED <<fileMeta, download>>
     ELSE IF fileMeta = NoMeta THEN
       \* new Blob(chunks, { type: fileMeta.mimeType }) throws on a null fileMeta
       UNCHANGED <<fileMeta, rState, rErr, download, rPeerOpen, rWs>>
     ELSE
       \* new Blob(chunks, ...); a.click(); showState(receiverComplete); cleanup()
       /\ download' = [made |-> TRUE, bytes |-> SumLen(chunks), parts |-> chunks]
       /\ rState' = "complete"
       /\ ReceiverCleanup
       /\ UNCHANGED <<fileMeta, rErr>>
  /\ tev' = NoEvent
  /\ UNCHANGED <<fileSize, sState, offset, pendingReads, fileQueue, fileWire, lowArmed,
                 drainTimer, sChannelOpen, sendLog, chunks, receivedBytes, sPeer, sWs,
                 sNote, rNote>>

\* The receiver's peer.close() (its cleanup) closes the sender's data channels.
RemoteClose ==
  /\ ~rPeerOpen
  /\ sChannelOpen
  /\ sChannelOpen' = FALSE
  /\ tev' = NoEvent
  /\ UNCHANGED <<fileSize, sState, offset, pendingReads, fileQueue, fileWire, ctrlWire,
                 lowArmed, drainTimer, sendLog, fileMeta, chunks, receivedBytes, rState,
                 rErr, download, rPeerOpen, sPeer, sWs, rWs, sNote, rNote>>

\* setTimeout(waitForDrain, 100) fires.  The timer is set only by a
\* waitForDrain that finds bufferedAmount non-zero; sendNextChunk is first
\* called from onopen, with nothing sent yet, and runs to the end of the file,
\* so no timer is ever pending (C9_NeverArmed): the step is written down for
\* the record and takes no part in TransferNext.
DrainTimerFires ==
  /\ drainTimer
  /\ ctrlWire' = IF Drained(BufferedAmount) THEN Append(ctrlWire, CompleteMsg) ELSE ctrlWire
  /\ sState' = IF Drained(BufferedAmount) THEN "complete" ELSE sState
  /\ drainTimer' = ~Drained(BufferedAmount)
  /\ tev' = NoEvent
  /\ UNCHANGED <<fileSize, offset, pendingReads, fileQueue, fileWire, lowArmed,
                 sChannelOpen, sendLog, fileMeta, chunks, receivedBytes, rState, rErr,
                 download, rPeerOpen, sPeer, sWs, rWs, sNote, rNote>>

\* The variables of the data path, which no connection handler touches.
dataVars ==
  <<fileSize, offset, pendingReads, fileQueue, fileWire, ctrlWire, lowArmed, drainTimer,
    sendLog, fileMeta, chunks, receivedBytes, download>>

\* The connection events (transport state, peer-left, socket close) are
\* explored on the files of at most MaxChunks chunks.
ConnEventsExplored == NumChunks(fileSize) <= MaxChunks

\* The sender's peer.onConnectionStateChange, called by the peer connection's
\* oniceconnectionstatechange with pc.iceConnectionState: showError, which
\* shows the error view and calls cleanup(), on 'failed' and 'disconnected'.
SenderConnectionState(state) ==
  /\ sPeer
  /\ ConnEventsExplored
  /\ tev' = ConnEvent("connectionstate", "sender", state)
  /\ IF Aborts(state)
     THEN sState' = "error" /\ SenderCleanup
     ELSE UNCHANGED <<sState, sPeer, sChannelOpen, sWs>>
  /\ UNCHANGED <<dataVars, rState, rErr, rPeerOpen, rWs, sNote, rNote>>

\* The receiver's peer.onConnectionStateChange.
ReceiverConnectionState(state) ==
  /\ rPeerOpen
  /\ ConnEventsExplored
  /\ tev' = ConnEvent("connectionstate", "receiver", state)
  /\ IF Aborts(state)
     THEN rState' = "error" /\ rErr' = NoErr /\ ReceiverCleanup
     ELSE UNCHANGED <<rState, rErr, rPeerOpen, rWs>>
  /\ UNCHANGED <<dataVars, sState, sPeer, sChannelOpen, sWs, sNote, rNote>>

\* signaling.on('peer-left') of the sender: showError('Receiver disconnected.').
\* A socket that is no longer open delivers no message.
SenderPeerLeft ==
  /\ sNote
  /\ sWs = "open"
  /\ ConnEventsExplored
  /\ sNote' = FALSE
  /\ tev' = ConnEvent("peer-left", "sender", "none")
  /\ sState' = "error"
  /\ SenderCleanup
  /\ UNCHANGED <<dataVars, rState, rErr, rPeerOpen, rWs, rNote>>

\* signaling.on('peer-left') of the receiver.
ReceiverPeerLeft ==
  /\ rNote
  /\ rWs = "open"
  /\ ConnEventsExplored
  /\ rNote' = FALSE
  /\ tev' = ConnEvent("peer-left", "receiver", "none")
  /\ rState' = "error"
  /\ rErr' = NoErr
  /\ ReceiverCleanup
  /\ UNCHANGED <<dataVars, sState, sPeer, sChannelOpen, sWs, sNote>>

\* The sender's signaling socket closes, after its own close() or because the
\* connection is lost: ws.onclose calls the 'close' handler, if (!peer)
\* showError('Lost connection to server.'), and the relay tells the other
\* participant, if its socket is open, that the peer has left.
SenderSignalingClose ==
  /\ sWs # "closed"
  /\ ConnEventsExplored
  /\ sWs' = "closed"
  /\ tev' = ConnEvent("close", "sender", "none")
  /\ sState' = IF ~sPeer THEN "error" ELSE sState
  /\ rNote' = (rNote \/ rWs = "open")
  /\ UNCHANGED <<dataVars, sPeer, sChannelOpen, rState, rErr, rPeerOpen, rWs, sNote>>

\* The receiver's signaling socket closes.
ReceiverSignalingClose ==
  /\ rWs # "closed"
  /\ ConnEventsExplored
  /\ rWs' = "closed"
  /\ tev' = ConnEvent("close", "receiver", "none")
  /\ rState' = IF ~rPeerOpen THEN "error" ELSE rState
  /\ rErr' = IF ~rPeerOpen THEN NoErr ELSE rErr
  /\ sNote' = (sNote \/ sWs = "open")
  /\ UNCHANGED <<dataVars, rPeerOpen, sState, sPeer, sChannelOpen, sWs, rNote>>

TransferInit ==
  /\ fileSize \in FileSizes
  /\ sState = "ready"
  /\ offset = 0
  /\ pendingReads = {}
  /\ fileQueue = <<>>
  /\ fileWire = <<>>
  /\ ctrlWire = <<>>
  /\ lowArmed = FALSE
  /\ drainTimer = FALSE
  /\ sChannelOpen = FALSE
  /\ sendLog = <<>>
  /\ fileMeta = NoMeta
  /\ chunks = <<>>
  /\ receivedBytes = 0
  /\ rState = "connecting"
  /\ rErr = NoErr
  /\ download = NoDownload
  /\ rPeerOpen = TRUE
  /\ sPeer = TRUE
  /\ sWs = "open"
  /\ rWs = "open"
  /\ sNote = FALSE
  /\ rNote = FALSE
  /\ tev = NoEvent

\* No transfer: the state of TransferInit for an empty file, never changed.
TransferIdle ==
  /\ fileSize = 0
  /\ sState = "ready"
  /\ offset = 0
  /\ pendingReads = {}
  /\ fileQueue = <<>>
  /\ fileWire = <<>>
  /\ ctrlWire = <<>>
  /\ lowArmed = FALSE
  /\ drainTimer = FALSE
  /\ sChannelOpen = FALSE
  /\ sendLog = <<>>
  /\ fileMeta = NoMeta
  /\ chunks = <<>>
  /\ receivedBytes = 0
  /\ rState = "connecting"
  /\ rErr = NoErr
  /\ download = NoDownload
  /\ rPeerOpen = TRUE
  /\ sPeer = TRUE
  /\ sWs = "open"
  /\ rWs = "open"
  /\ sNote = FALSE
  /\ rNote = FALSE
  /\ tev = NoEvent

\* The relay at rest.
RelayIdle ==
  /\ impl = "server"
  /\ readyState = [c \in Conns |-> "CONNECTING"]
  /\ rooms = [s \in {} |-> {}]
  /\ sessions = [s \in SessionIds |-> <<>>]
  /\ currentRoom = [c \in Conns |-> Undefined]
  /\ wsSession = [c \in Conns |-> Undefined]
  /\ ev = Event("init", Undefined, NoData, Undefined, 0)
  /\ sent = NoSends

TransferNext ==
  \/ FileChannelOpen /\ UNCHANGED <<relayVars, iceVars>>
  \/ \E off \in pendingReads : ReadDone(off) /\ UNCHANGED <<relayVars, iceVars>>
  \/ Transmit /\ UNCHANGED <<relayVars, iceVars>>
  \/ RecvChunk /\ UNCHANGED <<relayVars, iceVars>>
  \/ RecvControl /\ UNCHANGED <<relayVars, iceVars>>
  \/ RemoteClose /\ UNCHANGED <<relayVars, iceVars>>
  \/ \E state \in IceStates : SenderConnectionState(state) /\ UNCHANGED <<relayVars, iceVars>>
  \/ \E state \in IceStates : ReceiverConnectionState(state) /\ UNCHANGED <<relayVars, iceVars>>
  \/ SenderPeerLeft /\ UNCHANGED <<relayVars, iceVars>>
  \/ ReceiverPeerLeft /\ UNCHANGED <<relayVars, iceVars>>
  \/ SenderSignalingClose /\ UNCHANGED <<relayVars, iceVars>>
  \/ ReceiverSignalingClose /\ UNCHANGED <<relayVars, iceVars>>

\* --------------------------------------------------- GET /ice (credentials)
\* ---- bounds
\* NumReqs requests are in progress at a time, MaxCalls are received in a
\* behaviour and an analytics reply holds up to MaxBuckets time buckets.
NumReqs == 2
MaxCalls == 2
MaxBuckets == 2

\* ---- program constants
ICE_CACHE_TTL == 23 * 60 * 60 * 1000
METERED_ICE_CACHE_TTL == 50 * 60 * 1000
CACHE_TTL_MS == 60 * 60 * 1000
TURN_MONTHLY_LIMIT_GB == 900
\* Byte counters are counted in units of 512 MiB: 1024 ** 3 bytes are GIB units.
GIB == 2

IceImpls == {"worker", "guarded", "metered"}
Reqs == 1..NumReqs

\* null / undefined
Null == [kind |-> "null"]

\* JavaScript truthiness of a credential set: null and undefined are falsy, a
\* server list (even an empty one) is truthy.
Truthy(v) == v # Null

\* const ICE_CACHE_TTL of the handler that runs
IceTtl == IF iceImpl = "metered" THEN METERED_ICE_CACHE_TTL ELSE ICE_CACHE_TTL

\* const FALLBACK_ICE: two STUN servers in the Workers, five in part_003
FallbackIce == [kind |-> "stun", id |-> IF iceImpl = "metered" THEN 5 ELSE 2]

\* The n-th credential set the issuer produces.
Payload(n) == [kind |-> "turn", id |-> n]

\* What the issuer call comes to: a 2xx reply with a server list, a 2xx reply
\* without one (data.iceServers undefined; the JSON text null from Metered), or
\* a failure (a rejected fetch or a non-OK status: both end in the catch block).
IssuerResults == {"ok", "malformed", "failed"}

\* ---- usage guard (src/usage-guard.js)
\* usageGB is a fraction: num units of 512 MiB over den units per GiB.
UsageGB(totalBytes) == [num |-> totalBytes, den |-> GIB]

GB(n) == UsageGB(n * GIB)

\* usageGB >= TURN_MONTHLY_LIMIT_GB
OverLimitStrict(usageGB) == usageGB.num > TURN_MONTHLY_LIMIT_GB * usageGB.den

OverLimit(usageGB) == usageGB.num >= TURN_MONTHLY_LIMIT_GB * usageGB.den

\* A time bucket of the analytics reply; its bytes field may be absent.
\* 900 and 901 units are 450 GiB and 450.5 GiB.
Buckets ==
  {[has |-> FALSE, bytes |-> 0]} \cup {[has |-> TRUE, bytes |-> n] : n \in {900, 901}}

BucketLists == UNION {[1..n -> Buckets] : n \in 0..MaxBuckets}

\* What the analytics query comes to: a failure (a rejected fetch or a non-OK
\* status: both end in the catch block), or a reply whose result.data is a
\* bucket list or is absent.
AnalyticsResults ==
  {[ok |-> FALSE, hasData |-> FALSE, data |-> <<>>]}
  \cup {[ok |-> TRUE, hasData |-> FALSE, data |-> <<>>]}
  \cup {[ok |-> TRUE, hasData |-> TRUE, data |-> d] : d \in BucketLists}

\* bucket.bytes ?? 0
BytesOr0(bucket) == IF bucket.has THEN bucket.bytes ELSE 0

\* (data.result?.data ?? []).reduce((sum, bucket) => sum + (bucket.bytes ?? 0), 0)
RECURSIVE Reduce(_)
Reduce(data) == IF data = <<>> THEN 0 ELSE BytesOr0(Head(data)) + Reduce(Tail(data))

TotalBytesFirstOnly(res) ==
  IF res.hasData /\ res.data # <<>> THEN BytesOr0(Head(res.data)) ELSE 0

TotalBytes(res) == IF res.hasData THEN Reduce(res.data) ELSE 0

NoSnapshot == [kind |-> "none"]
Snapshot(usageGB, fetchedAt) ==
  [kind |-> "snapshot", usageGB |-> usageGB, fetchedAt |-> fetchedAt]

\* The guard's reply { overLimit, usageGB, cached, error }
GuardReply(usageGB, cached, error) ==
  [kind |-> "reply", overLimit |-> OverLimit(usageGB), usageGB |-> usageGB,
   cached |-> cached, error |-> error]

NoReply == [kind |-> "none"]

\* if (cached) { if (Date.now() - fetchedAt < CACHE_TTL_MS) ... }
SnapshotFresh(snapshot) ==
  snapshot # NoSnapshot /\ clock - snapshot.fetchedAt < CACHE_TTL_MS

\* stale?.usageGB ?? 0
StaleUsageGBForgotten(stale) == GB(0)

StaleUsageGB(stale) == IF stale # NoSnapshot THEN stale.usageGB ELSE GB(0)

\* ---- a request
NoResponse == [kind |-> "none"]

\* data is what isOverUsageLimit will return: the overLimit of the guard's
\* reply, or false when guard.fetch rejects (the guard cannot be reached).
\* query tells, until isOverUsageLimit returns, how the usage check went:
\* "none" (not made, or answered from the snapshot), "ok", "failed" (the
\* analytics query failed), "rejected" (guard.fetch rejected).
IdleReq ==
  [pc |-> "idle", now |-> 0, data |-> FALSE, query |-> "none", overLimit |-> FALSE,
   issuerCalls |-> 0, queries |-> 0, outcome |-> "none", response |-> NoResponse]

\* const iceServers = cfTurn || FALLBACK_ICE; return Response.json({ iceServers })
Respond(q, cfTurn) ==
  [q EXCEPT !.pc = "done", !.now = 0,
            !.response = IF Truthy(cfTurn) THEN cfTurn ELSE FallbackIce]

\* iceCache && (now - iceCacheTime) < ICE_CACHE_TTL
CacheFreshIgnoringAge(now) == Truthy(iceCache)

CacheFreshInverted(now) == Truthy(iceCache) /\ now - iceCacheTime > IceTtl

CacheFresh(now) == Truthy(iceCache) /\ now - iceCacheTime < IceTtl

\* fetchCloudflareTurn / fetchMeteredIce up to the await of the issuer call:
\* no keys, a fresh cache, or the call to the issuer.
FetchTurn(q) ==
  IF ~keysSet THEN Respond(q, Null)
  ELSE IF CacheFresh(clock) THEN Respond(q, iceCache)
  ELSE [q EXCEPT !.now = clock, !.pc = "awaitIssuer", !.issuerCalls = @ + 1]

\* The guard replies to request q: the reply travels back to isOverUsageLimit.
RepliedUnderLimit(q, reply) == [q EXCEPT !.pc = "guardReplied", !.data = FALSE]

Replied(q, reply) == [q EXCEPT !.pc = "guardReplied", !.data = reply.overLimit]

\* UsageGuard.fetch (POST /check) up to the await of the analytics query.
GuardCheck(q) ==
  IF SnapshotFresh(usageCache)
  THEN Replied(q, GuardReply(usageCache.usageGB, TRUE, FALSE))
  ELSE [q EXCEPT !.pc = "guardQuery", !.queries = @ + 1]

\* Request r moves on to q; a request that has responded leaves its slot and
\* is on record, for this step, as the one served.
Settle(r, q) ==
  /\ req' = [req EXCEPT ![r] = IF q.pc = "done" THEN IdleReq ELSE q]
  /\ served' = IF q.pc = "done" THEN q ELSE IdleReq

\* GET /ice arrives.  part_002 first asks the usage guard (isOverUsageLimit),
\* which answers from a fresh snapshot, starts the analytics query, or cannot
\* be reached; the other two handlers go straight to the credential cache.
IceGet(r) ==
  /\ req[r].pc = "idle"
  /\ \A b \in Reqs : b < r => req[b].pc # "idle"
  /\ calls < MaxCalls
  /\ calls' = calls + 1
  /\ IF iceImpl = "guarded"
     THEN \E reachable \in BOOLEAN :
            IF reachable
            THEN /\ Settle(r, GuardCheck(IdleReq))
                 /\ replied' = IF SnapshotFresh(usageCache)
                                THEN GuardReply(usageCache.usageGB, TRUE, FALSE)
                                ELSE NoReply
            ELSE /\ Settle(r, [IdleReq EXCEPT !.pc = "guardReplied", !.data = FALSE,
                                               !.query = "rejected"])
                 /\ replied' = NoReply
     ELSE Settle(r, FetchTurn(IdleReq)) /\ replied' = NoReply
  /\ UNCHANGED <<iceImpl, keysSet, clock, issued, iceCache, iceCacheTime, usageCache,
                 cachedBy>>

\* The analytics query of the guard returns: the try block from `if (!res.ok)`
\* to the reply, or the catch block.
AnalyticsReturn(r, res) ==
  /\ req[r].pc = "guardQuery"
  /\ IF res.ok
     THEN LET usageGB == UsageGB(TotalBytes(res)) IN
          /\ usageCache' = Snapshot(usageGB, clock)
          /\ replied' = GuardReply(usageGB, FALSE, FALSE)
          /\ Settle(r, Replied([req[r] EXCEPT !.query = "ok"], replied'))
     ELSE LET stale == usageCache
              usageGB == StaleUsageGB(stale) IN
          /\ UNCHANGED usageCache
          /\ replied' = GuardReply(usageGB, TRUE, TRUE)
          /\ Settle(r, Replied([req[r] EXCEPT !.query = "failed"], replied'))
  /\ UNCHANGED <<iceImpl, keysSet, clock, calls, issued, iceCache, iceCacheTime,
                 cachedBy>>

\* const cfTurn = overLimit ? null : await fetchCloudflareTurn(env)
GateIgnored(q) == FetchTurn(q)

Gate(q) == IF q.overLimit THEN Respond(q, Null) ELSE FetchTurn(q)

\* The guard's reply reaches the GET /ice handler of part_002.
LimitKnown(r) ==
  /\ req[r].pc = "guardReplied"
  /\ Settle(r, Gate([req[r] EXCEPT !.overLimit = req[r].data, !.data = FALSE,
                                    !.query = "none"]))
  /\ replied' = NoReply
  /\ UNCHANGED <<iceImpl, keysSet, clock, calls, issued, iceCache, iceCacheTime,
                 usageCache, cachedBy>>

\* What the issuer call does to the cache: on a 2xx reply iceCache becomes the
\* reply's server list (undefined / null when there is none) and iceCacheTime
\* the `now` read before the call; on a failure the catch block touches nothing.
CacheAfterClearedOnFailure(q, res) ==
  IF res = "ok" THEN [cache |-> Payload(issued + 1), time |-> q.now]
  ELSE [cache |-> Null, time |-> q.now]

CacheAfterStampedOnReturn(q, res) ==
  IF res = "ok" THEN [cache |-> Payload(issued + 1), time |-> clock]
  ELSE IF res = "malformed" THEN [cache |-> Null, time |-> clock]
  ELSE [cache |-> iceCache, time |-> iceCacheTime]

CacheAfter(q, res) ==
  IF res = "ok" THEN [cache |-> Payload(issued + 1), time |-> q.now]
  ELSE IF res = "malformed" THEN [cache |-> Null, time |-> q.now]
  ELSE [cache |-> iceCache, time |-> iceCacheTime]

\* An issuer call: the payload it produced (0 when its reply held none) and
\* the time at which it began.
IssuerCall(id, began) == [id |-> id, began |-> began]
NoIssuerCall == IssuerCall(0, 0)

\* The issuer call returns: the rest of fetchCloudflareTurn / fetchMeteredIce
\* and of the GET /ice handler.
IssuerReturn(r, res) ==
  /\ req[r].pc = "awaitIssuer"
  /\ cachedBy' = IF res = "ok" THEN IssuerCall(issued + 1, req[r].now)
                 ELSE IF res = "malformed" THEN IssuerCall(0, req[r].now)
                 ELSE cachedBy
  /\ issued' = IF res = "ok" THEN issued + 1 ELSE issued
  /\ iceCache' = CacheAfter(req[r], res).cache
  /\ iceCacheTime' = CacheAfter(req[r], res).time
  /\ Settle(r, Respond([req[r] EXCEPT !.outcome = res],
                        IF res \in {"ok", "malformed"} THEN iceCache' ELSE Null))
  /\ replied' = NoReply
  /\ UNCHANGED <<iceImpl, keysSet, clock, calls, usageCache>>

\* The moments at which a stored timestamp stops being fresh: the cached
\* credentials, the credentials a call in progress will store, the snapshot.
Deadlines ==
  (IF Truthy(iceCache) THEN {iceCacheTime + IceTtl} ELSE {})
  \cup {req[r].now + IceTtl : r \in {x \in Reqs : req[x].pc = "awaitIssuer"}}
  \cup (IF usageCache # NoSnapshot THEN {usageCache.fetchedAt + CACHE_TTL_MS} ELSE {})

\* Time passes, up to the next deadline or a later one.
Tick(t) ==
  /\ t > clock
  /\ clock' = t
  /\ replied' = NoReply
  /\ served' = IdleReq
  /\ UNCHANGED <<iceImpl, keysSet, calls, issued, iceCache, iceCacheTime, usageCache, req,
                 cachedBy>>

IceInit ==
  /\ iceImpl \in IceImpls
  /\ keysSet \in BOOLEAN
  /\ clock = 0
  /\ calls = 0
  /\ issued = 0
  /\ iceCache = Null
  /\ iceCacheTime = 0
  /\ usageCache = NoSnapshot
  /\ req = [r \in Reqs |-> IdleReq]
  /\ replied = NoReply
  /\ served = IdleReq
  /\ cachedBy = NoIssuerCall

\* No request is ever made.
IceIdle ==
  /\ iceImpl = "worker"
  /\ keysSet = FALSE
  /\ clock = 0
  /\ calls = 0
  /\ issued = 0
  /\ iceCache = Null
  /\ iceCacheTime = 0
  /\ usageCache = NoSnapshot
  /\ req = [r \in Reqs |-> IdleReq]
  /\ replied = NoReply
  /\ served = IdleReq
  /\ cachedBy = NoIssuerCall

IceNext ==
  \/ \E r \in Reqs : IceGet(r) /\ UNCHANGED <<relayVars, transferVars>>
  \/ \E r \in Reqs, res \in AnalyticsResults : AnalyticsReturn(r, res) /\ UNCHANGED <<relayVars, transferVars>>
  \/ \E r \in Reqs : LimitKnown(r) /\ UNCHANGED <<relayVars, transferVars>>
  \/ \E r \in Reqs, res \in IssuerResults : IssuerReturn(r, res) /\ UNCHANGED <<relayVars, transferVars>>
  \/ \E d \in Deadlines : Tick(d) /\ UNCHANGED <<relayVars, transferVars>>

\* --------------------------------------------------------- specifications
\* The relay alone (no transfer is running).
InitRelay == RelayInit /\ TransferIdle /\ IceIdle

SpecRelay == InitRelay /\ [][RelayNext]_vars

\* One transfer between a sender and a receiver (the relay is server.js, idle).
InitTransfer == TransferInit /\ RelayIdle /\ IceIdle

SpecTransfer == InitTransfer /\ [][TransferNext]_vars

\* The transfer with its scheduling: the file channel opens, every pending
\* chunk.arrayBuffer() promise is settled and its callback run, and the
\* transport keeps taking messages off the send buffer and delivering them.
\* Nothing obliges a connection event or a control message to arrive.
TransferFairness ==
  /\ WF_vars(FileChannelOpen /\ UNCHANGED <<relayVars, iceVars>>)
  /\ WF_vars(\E off \in pendingReads : ReadDone(off) /\ UNCHANGED <<relayVars, iceVars>>)
  /\ WF_vars(Transmit /\ UNCHANGED <<relayVars, iceVars>>)
  /\ WF_vars(RecvChunk /\ UNCHANGED <<relayVars, iceVars>>)

SpecTransferLive == InitTransfer /\ [][TransferNext]_vars /\ TransferFairness

\* GET /ice requests (no relay traffic, no transfer).
InitIce == IceInit /\ RelayIdle /\ TransferIdle

SpecIce == InitIce /\ [][IceNext]_vars

\* ------------------------------------------------- claims about the relay
\* The session identifier a join names: the sessionId (server, joinRoom) or
\* roomId (index) field of a 'join' message, or the ?sessionId= of the
\* connection request (joinRoom, durable).
IsJoin(e, s) ==
  \/ /\ e.kind = "message"
     /\ e.data \in JoinFrames
     /\ \/ impl \in {"server", "joinRoom"} /\ e.data.value.sessionId = s
        \/ impl = "index" /\ e.data.value.roomId = s
  \/ /\ e.kind = "connection"
     /\ impl \in {"joinRoom", "durable"}
     /\ e.url = s

IsRelay(e) == e.kind = "message" /\ e.data \in SignalFrames

\* The joiner c of event e was answered with exactly the error `text`: one
\* error frame on its socket, or (Durable Object) the body of the 409 response.
RejectedWith(e, out, text) ==
  IF impl = "durable"
  THEN e.status = 409 /\ e.data = Injected("error", text) /\ out[e.conn] = <<>>
  ELSE out[e.conn] = <<Injected("error", text)>>

RoomFullText == IF impl = "index" THEN "Room is full" ELSE "room-full"

JoinedType == IF impl = "index" THEN "peer-joined" ELSE "receiver-joined"

DisconnectType == IF impl = "index" THEN "peer-left" ELSE "peer-disconnected"

JoinedNotes == {Injected("peer-joined", ""), Injected("receiver-joined", "")}

DisconnectNotes == {Injected("peer-left", ""), Injected("peer-disconnected", "")}

\* What a relay forwards for an inbound frame.
Relayed(data) == IF impl = "durable" THEN data ELSE JSONstringify(JSONparse(data))

\* C1: in every reachable state of every relay, no session identifier maps to
\* more than 2 participants.
C1_AtMostTwoParticipants ==
  \A s \in SessionIds : Cardinality(Members(s)) <= 2 /\ Len(sessions[s]) <= 2

\* A third connection has just been refused by a session that holds 2.
C1_Witness ==
  \E s \in SessionIds :
    /\ IsJoin(ev, s)
    /\ Cardinality(Members(s)) = 2
    /\ ev.conn \notin Members(s)
    /\ RejectedWith(ev, sent, RoomFullText)

\* C2 as stated: a join to a session that holds 2 participants is answered
\* with the error 'room-full' on the joiner alone, the participant set is
\* unchanged and nobody else receives anything.
C2_RoomFullAsStated ==
  [][\A s \in SessionIds :
       (IsJoin(ev', s) /\ Cardinality(Members(s)) = 2) =>
         /\ Members(s)' = Members(s)
         /\ RejectedWith(ev', sent', "room-full")
         /\ \A x \in Conns \ {ev'.conn} : sent'[x] = <<>>]_vars

\* C2 (amended): a join to a session that holds 2 participants leaves the
\* participant set unchanged and delivers nothing to any connection but the
\* joiner; the joiner gets exactly one error, whose text is 'room-full'
\* (server.js, part_004, the Durable Object's 409) or 'Room is full'
\* (server/index.js), except that part_004 ignores, without any reply, a
\* 'join' message on a connection that has already joined.
C2_RoomFullRejected ==
  [][\A s \in SessionIds :
       (IsJoin(ev', s) /\ Cardinality(Members(s)) = 2) =>
         /\ Members(s)' = Members(s)
         /\ \A x \in Conns \ {ev'.conn} : sent'[x] = <<>>
         /\ IF impl = "joinRoom" /\ ev'.kind = "message" /\ ~Falsy(currentRoom[ev'.conn])
            THEN sent'[ev'.conn] = <<>>
            ELSE RejectedWith(ev', sent', RoomFullText)]_vars

\* A join from outside was refused by a full session and the error delivered.
C2_Witness ==
  \E s \in SessionIds :
    /\ IsJoin(ev, s)
    /\ Cardinality(Members(s)) = 2
    /\ ev.conn \notin Members(s)
    /\ \/ ev.status = 409
       \/ sent[ev.conn] = <<Injected("error", RoomFullText)>>
    /\ \E p \in Members(s) : readyState[p] = "OPEN"

\* C3 as stated: when the second join of a session is admitted, both
\* participants receive a joined notification.
C3_BothNotifiedAsStated ==
  [][\A s \in SessionIds :
       (IsJoin(ev', s) /\ Cardinality(Members(s)) = 1 /\ Cardinality(Members(s)') = 2) =>
         \A p \in Members(s)' : Len(sent'[p]) = 1 /\ sent'[p][1] \in JoinedNotes]_vars

\* C3 (amended): when the second join of a session is admitted, the
\* participant already in the session receives exactly one joined
\* notification if its connection is open ('receiver-joined'; 'peer-joined'
\* in server/index.js) and none otherwise; the second joiner itself is
\* notified only by server/index.js; nobody else receives anything.
C3_FirstJoinerNotified ==
  [][\A s \in SessionIds :
       (IsJoin(ev', s) /\ Cardinality(Members(s)) = 1 /\ Cardinality(Members(s)') = 2) =>
         \A x \in Conns :
           sent'[x] =
             IF x \in Members(s)
             THEN (IF readyState[x] = "OPEN" THEN <<Injected(JoinedType, "")>> ELSE <<>>)
             ELSE IF x = ev'.conn /\ impl = "index" THEN <<Injected(JoinedType, "")>>
             ELSE <<>>]_vars

\* A second join has just been admitted and the first joiner was notified.
C3_Witness ==
  \E s \in SessionIds :
    /\ IsJoin(ev, s)
    /\ ev.conn \in Members(s)
    /\ Cardinality(Members(s)) = 2
    /\ \E p \in Members(s) \ {ev.conn} : sent[p] = <<Injected(JoinedType, "")>>

\* C4 as stated: a signaling payload sent by A, whose session has B as its
\* only other participant, is delivered to B exactly once with the same
\* content, and never to A.
C4_RelayAsStated ==
  [][IsRelay(ev') =>
       \A b \in Conns \ {ev'.conn} :
         (~Falsy(CurrentSession(ev'.conn)) /\ Members(CurrentSession(ev'.conn)) = {ev'.conn, b}) =>
           /\ Len(sent'[b]) = 1
           /\ JSONparse(sent'[b][1]) = JSONparse(ev'.data)
           /\ sent'[ev'.conn] = <<>>]_vars

\* C4 (amended): a signaling payload sent by A is delivered exactly once to
\* each other participant of A's current session whose connection is open,
\* and to nobody else (never to A); the Durable Object forwards the frame
\* itself, the other relays forward JSON.stringify(JSON.parse(frame)).
C4_RelayToOpenPeer ==
  [][IsRelay(ev') =>
       \A x \in Conns :
         sent'[x] =
           IF /\ ~Falsy(CurrentSession(ev'.conn))
              /\ x \in Members(CurrentSession(ev'.conn)) \ {ev'.conn}
              /\ readyState[x] = "OPEN"
           THEN <<Relayed(ev'.data)>>
           ELSE <<>>]_vars

\* A payload has just been relayed from A to the other participant B.
C4_Witness ==
  /\ IsRelay(ev)
  /\ \E b \in Conns \ {ev.conn} :
       /\ Members(CurrentSession(ev.conn)) = {ev.conn, b}
       /\ sent[b] = <<Relayed(ev.data)>>
       /\ sent[ev.conn] = <<>>

\* C5 as stated: when a participant of a 2-participant session disconnects,
\* the remaining participant receives exactly one disconnect notification;
\* when the last participant disconnects, nobody receives one.
C5_DisconnectAsStated ==
  [][(ev'.kind = "close" /\ ~Falsy(CurrentSession(ev'.conn))
        /\ ev'.conn \in Members(CurrentSession(ev'.conn))) =>
       \A x \in Conns :
         IF x \in Members(CurrentSession(ev'.conn)) \ {ev'.conn}
         THEN Len(sent'[x]) = 1 /\ sent'[x][1] \in DisconnectNotes
         ELSE sent'[x] = <<>>]_vars

\* C5 (amended): when a participant of a session disconnects, the remaining
\* participant, if there is one, receives exactly one disconnect notification
\* provided its own connection is still open, and none otherwise; nobody
\* else receives anything, so the last participant's leaving notifies nobody.
C5_DisconnectNotifiesOpenPeer ==
  [][(ev'.kind = "close" /\ ~Falsy(CurrentSession(ev'.conn))
        /\ ev'.conn \in Members(CurrentSession(ev'.conn))) =>
       \A x \in Conns :
         sent'[x] =
           IF x \in Members(CurrentSession(ev'.conn)) \ {ev'.conn} /\ readyState[x] = "OPEN"
           THEN <<Injected(DisconnectType, "")>>
           ELSE <<>>]_vars

\* A participant has just left a 2-participant session and the other was told.
C5_Witness ==
  /\ ev.kind = "close"
  /\ ~Falsy(CurrentSession(ev.conn))
  /\ \E b \in Conns \ {ev.conn} :
       /\ Members(CurrentSession(ev.conn)) = {b}
       /\ readyState[b] = "OPEN"
       /\ sent[b] = <<Injected(DisconnectType, "")>>

\* ---------------------------------------------- claims about the transfer
\* This step is the sender's controlChannel.send of file-complete.
SendsComplete ==
  /\ ctrlWire' # ctrlWire
  /\ ctrlWire' # <<>>
  /\ ctrlWire'[Len(ctrlWire')] = CompleteMsg
  /\ Len(ctrlWire') > Len(ctrlWire) \/ ctrlWire = <<>>

\* This step is the receiver's control-channel handler processing file-complete.
ProcessesComplete ==
  /\ rPeerOpen
  /\ ctrlWire # <<>>
  /\ Head(ctrlWire) = CompleteMsg
  /\ ctrlWire' = Tail(ctrlWire)

InOffsetOrder(q) == \A i, j \in 1..Len(q) : i < j => q[i] < q[j]

\* C6: file-complete is sent only after every chunk of the file has been
\* handed to the file channel (and the buffer has then drained to zero): at the
\* step that sends it no chunk read is pending and every chunk has been passed
\* to fileChannel.send.
C6_CompleteAfterAllChunks ==
  [][SendsComplete =>
       /\ pendingReads = {}
       /\ Len(sendLog) = NumChunks(fileSize)
       /\ BufferedAmount = 0]_vars

\* C7: on a transfer without a transport error, when the receiver processes
\* file-complete its receivedBytes is the file's size, it holds the chunks in
\* offset order, and the artifact it assembles is as long as the file.
C7_CompleteMeansWholeFile ==
  [][ProcessesComplete =>
       /\ receivedBytes = fileSize
       /\ InOffsetOrder(chunks)
       /\ download'.made
       /\ download'.bytes = fileSize]_vars

\* C8: on file-complete the receiver hands over an artifact only if its
\* receivedBytes equals the size of the received file-meta; if the two differ
\* it shows the error with both byte counts and no artifact is made.  An
\* artifact is made by no other step.
C8_ArtifactOnlyOnExactSize ==
  [][/\ download' # download =>
          /\ ProcessesComplete
          /\ fileMeta # NoMeta
          /\ receivedBytes = fileMeta.size
          /\ download'.bytes = fileMeta.size
     /\ (ProcessesComplete /\ fileMeta # NoMeta /\ receivedBytes # fileMeta.size) =>
          /\ rState' = "error"
          /\ rErr' = <<receivedBytes, fileMeta.size>>
          /\ download' = NoDownload]_vars

\* C8's case: file-complete was processed with some, not all, of the bytes
\* received; the error names both counts and there is no artifact.
C8_Witness ==
  /\ rState = "error"
  /\ Len(rErr) = 2
  /\ rErr[1] > 0
  /\ rErr[1] < rErr[2]
  /\ rErr = <<receivedBytes, fileMeta.size>>
  /\ ~download.made

\* C9: while the file channel's bufferedAmount is above the high-water mark
\* no chunk is passed to fileChannel.send.
C9_NoSendAboveHighWater ==
  [][BufferedAmount > HIGH_WATER_MARK => sendLog' = sendLog]_vars

\* C9, the pause: the low-water callback is never set and no drain timer is
\* ever pending, because the only call of sendNextChunk finds bufferedAmount 0.
C9_NeverArmed == ~lowArmed /\ ~drainTimer

\* C10: the chunks are passed to fileChannel.send in strictly increasing
\* offset order.
C10_SendsInOffsetOrder == InOffsetOrder(sendLog)

\* ----------------------------------------------- claims about GET /ice
\* The request that arrives in this step takes slot r.
Arrives(r) ==
  /\ calls' = calls + 1
  /\ req[r].pc = "idle"
  /\ \A b \in Reqs : b < r => req[b].pc # "idle"

\* Request r takes a step.
Moves(r) == req'[r] # req[r]

\* The handler of request r learns the over-limit result in this step.
LearnsLimit(r) == req[r].pc = "guardReplied" /\ Moves(r)

\* Request r enters the credential cache (getCredentials) in this step.
GetsCredentials(r) ==
  \/ iceImpl # "guarded" /\ Arrives(r)
  \/ LearnsLimit(r) /\ ~req[r].data

\* The issuer call of request r returns in this step.
IssuerReturns(r) == req[r].pc = "awaitIssuer" /\ Moves(r)

\* The cached credential set is there and younger than its TTL.
FreshCredentials == iceCache # Null /\ clock - iceCacheTime < IceTtl

\* The persisted snapshot is there and younger than the guard's TTL.
FreshSnapshot == usageCache # NoSnapshot /\ clock - usageCache.fetchedAt < CACHE_TTL_MS

\* usageGB >= 900
AtLimit(usageGB) == usageGB.num >= TURN_MONTHLY_LIMIT_GB * usageGB.den

\* The sum of the byte counters of the buckets of a reply, an absent one as 0.
SumOfBuckets(res) ==
  LET RECURSIVE Upto(_)
      Upto(n) == IF n = 0 THEN 0
                 ELSE Upto(n - 1) + (IF res.data[n].has THEN res.data[n].bytes ELSE 0)
  IN Upto(Len(res.data))

\* C11: when the usage guard reports overLimit = true, the GET /ice request
\* calls the issuer not at all, answers with the STUN-only fallback whatever
\* the state of the credential cache, and leaves the cache as it was.
C11_OverLimitServesFallback ==
  [][\A r \in Reqs :
       (LearnsLimit(r) /\ req[r].data) =>
         /\ served'.pc = "done"
         /\ served'.overLimit
         /\ served'.response = FallbackIce
         /\ served'.issuerCalls = 0
         /\ req'[r].pc = "idle"
         /\ issued' = issued
         /\ iceCache' = iceCache
         /\ iceCacheTime' = iceCacheTime]_vars

\* C11's case: a request was refused credentials while a fresh set is cached.
C11_Witness ==
  /\ served.pc = "done"
  /\ served.overLimit
  /\ served.response = FallbackIce
  /\ FreshCredentials

\* C12: a getCredentials call made while a fetched set is cached and
\* now - fetchedAt < ttl returns that very set and makes no issuer call.
C12_FreshCacheIsServed ==
  [][\A r \in Reqs :
       (GetsCredentials(r) /\ FreshCredentials) =>
         /\ served'.pc = "done"
         /\ served'.response = iceCache
         /\ served'.issuerCalls = 0
         /\ req'[r].pc = "idle"
         /\ issued' = issued
         /\ iceCache' = iceCache
         /\ iceCacheTime' = iceCacheTime]_vars

\* C12's case: a request was answered from the cache some time after the fetch.
C12_Witness ==
  /\ served.pc = "done"
  /\ served.issuerCalls = 0
  /\ served.response = iceCache
  /\ served.response = Payload(1)
  /\ clock > iceCacheTime

\* The effect C13 states for a call that finds no fresh cached set: one issuer
\* call, and on its success the payload cached and returned.
C13_Refresh(r) ==
  /\ (GetsCredentials(r) /\ ~FreshCredentials) =>
       /\ req'[r].pc = "awaitIssuer"
       /\ req'[r].issuerCalls = 1
  /\ IssuerReturns(r) =>
       /\ served'.pc = "done"
       /\ served'.issuerCalls = 1
       /\ req'[r].pc = "idle"
       /\ served'.outcome = "ok" =>
            /\ issued' = issued + 1
            /\ iceCache' = Payload(issued')
            /\ iceCacheTime' = req[r].now
            /\ served'.response = iceCache'

\* C13 as stated: every getCredentials call that finds no cached set, or an
\* expired one, makes exactly one issuer call; on success the payload replaces
\* the cached set and is returned.
C13_RefreshAsStated == [][\A r \in Reqs : C13_Refresh(r)]_vars

\* C13, amended: the same, for a deployment whose issuer keys are configured;
\* without them getCredentials makes no issuer call.
C13_RefreshWhenConfigured ==
  [][\A r \in Reqs :
       /\ keysSet => C13_Refresh(r)
       /\ (GetsCredentials(r) /\ ~keysSet) =>
            /\ served'.pc = "done"
            /\ served'.issuerCalls = 0
            /\ served'.response = FallbackIce]_vars

\* C13's case: an expired set was replaced by the payload of a second fetch,
\* which the caller received.
C13_Witness ==
  /\ served.pc = "done"
  /\ served.outcome = "ok"
  /\ served.issuerCalls = 1
  /\ iceCache = Payload(2)
  /\ served.response = iceCache
  /\ iceCacheTime >= IceTtl

\* C14: when the issuer call fails, GET /ice still answers, with the STUN-only
\* fallback, and the cached set and its timestamp stay as they were.
C14_FailedFetchServesFallback ==
  [][\A r \in Reqs :
       (IssuerReturns(r) /\ served'.outcome = "failed") =>
         /\ served'.pc = "done"
         /\ served'.response = FallbackIce
         /\ iceCache' = iceCache
         /\ iceCacheTime' = iceCacheTime]_vars

\* C14's case: a refresh of an expired set failed; the expired set is kept.
C14_Witness ==
  /\ served.pc = "done"
  /\ served.outcome = "failed"
  /\ served.response = FallbackIce
  /\ iceCache = Payload(1)
  /\ clock - iceCacheTime >= IceTtl

\* The usage guard is reached by the request that arrives in slot r in this step.
ChecksLimit(r) == iceImpl = "guarded" /\ Arrives(r) /\ req'[r].query # "rejected"

\* The analytics query of request r returns in this step.
QueryReturns(r) == req[r].pc = "guardQuery" /\ Moves(r)

\* C15: checkOverLimit called while the persisted snapshot is younger than one
\* hour returns the snapshot's usageGB with cached = true and overLimit =
\* (usageGB >= 900), queries nothing and writes nothing; a fresh snapshot of
\* 901 GB gives overLimit = true.
C15_FreshSnapshotIsServed ==
  [][\A r \in Reqs :
       (ChecksLimit(r) /\ FreshSnapshot) =>
         /\ replied'.kind = "reply"
         /\ replied'.usageGB = usageCache.usageGB
         /\ replied'.cached
         /\ replied'.overLimit = AtLimit(usageCache.usageGB)
         /\ usageCache.usageGB = GB(901) => replied'.overLimit
         /\ req'[r].pc = "guardReplied"
         /\ req'[r].data = replied'.overLimit
         /\ req'[r].queries = 0
         /\ usageCache' = usageCache]_vars

\* C15's case: a fresh snapshot of 901 GB was answered from, as over the limit.
C15_Witness ==
  /\ FreshSnapshot
  /\ usageCache.usageGB = GB(901)
  /\ replied.kind = "reply"
  /\ replied.cached
  /\ ~replied.error
  /\ replied.usageGB = GB(901)
  /\ replied.overLimit

\* C16: when the analytics query fails, checkOverLimit still replies, with the
\* usageGB of the last persisted snapshot (0 if there is none) and the error
\* flag set, and the persisted snapshot stays as it was.
C16_FailedQueryServesStale ==
  [][\A r \in Reqs :
       (QueryReturns(r) /\ req'[r].query = "failed") =>
         /\ replied'.kind = "reply"
         /\ replied'.error
         /\ replied'.usageGB =
              IF usageCache = NoSnapshot THEN GB(0) ELSE usageCache.usageGB
         /\ req'[r].pc = "guardReplied"
         /\ usageCache' = usageCache]_vars

\* C16's case: a query failed while an expired snapshot with some usage was
\* persisted; the reply carries that usage and the error flag.
C16_Witness ==
  /\ replied.kind = "reply"
  /\ replied.error
  /\ usageCache # NoSnapshot
  /\ replied.usageGB = usageCache.usageGB
  /\ replied.usageGB.num > 0
  /\ clock - usageCache.fetchedAt >= CACHE_TTL_MS

\* C17 as stated: whenever the analytics query fails or the guard cannot be
\* reached, the over-limit result GET /ice uses is false and the credential
\* cache is consulted.
C17_FailureIsUnderLimitAsStated ==
  [][\A r \in Reqs :
       (LearnsLimit(r) /\ req[r].query \in {"failed", "rejected"}) =>
         /\ ~req[r].data
         /\ GetsCredentials(r)]_vars

\* C17, amended: when the guard cannot be reached the over-limit result is
\* false; when the analytics query fails it is (usageGB >= 900) of the last
\* persisted snapshot, false when there is none; GET /ice uses that result, and
\* consults the credential cache only when it is false.
C17_FailureFallsBackToSnapshot ==
  [][\A r \in Reqs :
       /\ (iceImpl = "guarded" /\ Arrives(r) /\ req'[r].query = "rejected") =>
            /\ req'[r].pc = "guardReplied"
            /\ ~req'[r].data
       /\ (QueryReturns(r) /\ req'[r].query = "failed") =>
            /\ req'[r].pc = "guardReplied"
            /\ req'[r].data = (usageCache # NoSnapshot /\ AtLimit(usageCache.usageGB))
       /\ (LearnsLimit(r) /\ req[r].query \in {"failed", "rejected"}) =>
            IF req[r].data
            THEN /\ served'.pc = "done"
                 /\ served'.overLimit
                 /\ served'.response = FallbackIce
                 /\ served'.issuerCalls = 0
            ELSE /\ GetsCredentials(r)
                 /\ served'.pc = "done" => ~served'.overLimit
                 /\ req'[r].pc # "idle" => ~req'[r].overLimit]_vars

\* C17's case: the analytics query failed with an expired snapshot of at least
\* 900 GB persisted, and the request is about to be refused credentials.
C17_Witness ==
  \E r \in Reqs :
    /\ req[r].pc = "guardReplied"
    /\ req[r].query = "failed"
    /\ req[r].data
    /\ replied.error
    /\ replied.overLimit

\* C18: checkOverLimit called with no snapshot, or with one at least an hour
\* old, queries the analytics endpoint once; when the query succeeds usageGB is
\* the sum of the byte counters of all buckets divided by 1024^3, the snapshot
\* (usageGB, fetchedAt = now) is persisted and the reply has cached = false and
\* overLimit = (usageGB >= 900).
C18_StaleSnapshotIsRefreshed ==
  [][\A r \in Reqs :
       /\ (ChecksLimit(r) /\ ~FreshSnapshot) =>
            /\ req'[r].pc = "guardQuery"
            /\ req'[r].queries = 1
            /\ usageCache' = usageCache
       /\ (QueryReturns(r) /\ req'[r].query = "ok") =>
          \A res \in AnalyticsResults :
            (res.ok /\ AnalyticsReturn(r, res)) =>
              LET usageGB == [num |-> SumOfBuckets(res), den |-> GIB] IN
              /\ replied' = [kind |-> "reply", overLimit |-> AtLimit(usageGB),
                             usageGB |-> usageGB, cached |-> FALSE, error |-> FALSE]
              /\ usageCache' = [kind |-> "snapshot", usageGB |-> usageGB,
                                fetchedAt |-> clock]
              /\ req'[r].pc = "guardReplied"
              /\ req'[r].data = AtLimit(usageGB)
              /\ req'[r].queries = 1]_vars

\* C18's case: an expired snapshot was replaced by one of exactly 900 GB,
\* summed over two buckets, taken at the time of the refresh.
C18_Witness ==
  /\ replied.kind = "reply"
  /\ ~replied.cached
  /\ replied.usageGB = GB(900)
  /\ replied.overLimit
  /\ usageCache = Snapshot(GB(900), clock)
  /\ clock >= CACHE_TTL_MS

\* ------------------------------------- claims about sessions and relaying
\* The last step handled a signaling payload sent by a connection that was
\* the only participant of its session (the primed state tells: a relay
\* changes neither the registry nor the sender's session).
RelayedAlone ==
  /\ ev.kind = "message"
  /\ JSONparse(ev.data) # ParseError
  /\ JSONparse(ev.data).type \in SignalTypes
  /\ ~Falsy(CurrentSession(ev.conn))
  /\ Members(CurrentSession(ev.conn)) = {ev.conn}

\* The frames the relay itself makes up.
Notifications ==
  {Injected(t, "") : t \in {"receiver-joined", "peer-joined", "peer-disconnected",
                            "peer-left"}}
  \cup {Injected("error", m) : m \in {"room-full", "Room is full"}}

\* C19: a signaling payload relayed while its sender is the only participant
\* of its session is delivered to nobody and leaves nothing behind: the relay
\* keeps no state but the registry, which the step leaves as it was, so every
\* delivery is made in the step of the event that causes it and a later
\* joiner is sent nothing but what its own join and later events send.
C19_LonePayloadIsDropped ==
  [][/\ (/\ ev'.kind = "message"
         /\ JSONparse(ev'.data) # ParseError
         /\ JSONparse(ev'.data).type \in SignalTypes
         /\ ~Falsy(CurrentSession(ev'.conn))
         /\ Members(CurrentSession(ev'.conn)) = {ev'.conn}) =>
        /\ sent' = NoSends
        /\ readyState' = readyState
        /\ rooms' = rooms
        /\ sessions' = sessions
        /\ currentRoom' = currentRoom
        /\ wsSession' = wsSession
     /\ \A x \in Conns : \A i \in 1..Len(sent'[x]) :
          \/ sent'[x][i] \in Notifications
          \/ /\ ev'.kind = "message"
             /\ ev'.conn # x
             /\ sent'[x][i] \in {ev'.data, JSONstringify(JSONparse(ev'.data))}]_vars

\* C19's case: a lone participant has just sent an offer.
C19_Witness ==
  /\ RelayedAlone
  /\ JSONparse(ev.data).type = "offer"
  /\ sent = NoSends

\* A connection that is a participant of the session in the registry and has
\* not left: its 'close' event has not been handled.
Present(sid) == {c \in Members(sid) : readyState[c] # "CLOSED"}

\* C20: the registry holds a session exactly while it has at least one
\* participant: no session is held with an empty participant set, and none
\* outlives the leaving of its last participant.
C20_SessionExistsWhileInhabited ==
  impl # "durable" => \A sid \in SessionIds : RoomsHas(sid) <=> Present(sid) # {}

\* The part of C20 about the registry's own sets: none is empty.
C20_NoEmptyRoom ==
  \A sid \in DOMAIN rooms : rooms[sid] # {}

\* ------------------------- claims about errors, bad frames and membership
\* The other participants of the session the handlers of c use.
Remaining(c) ==
  IF Falsy(CurrentSession(c)) THEN {} ELSE Members(CurrentSession(c)) \ {c}

\* The close handler of ev'.conn notifies every remaining participant whose
\* connection is open exactly once, and nobody else.
ClosedNotifiesOnce ==
  \A x \in Conns :
    sent'[x] = IF x \in Remaining(ev'.conn) /\ readyState[x] = "OPEN"
               THEN <<Injected(DisconnectType, "")>>
               ELSE <<>>

Unparseable(e) == e.kind = "message" /\ JSONparse(e.data) = ParseError

\* C22 as stated: an unparseable inbound frame is dropped by the relay:
\* nothing is forwarded, the sender gets no error and stays connected and in
\* its session, the registry is unchanged.
C22_BadFrameDroppedAsStated ==
  [][Unparseable(ev') =>
       /\ sent' = NoSends
       /\ readyState' = readyState
       /\ rooms' = rooms /\ sessions' = sessions
       /\ currentRoom' = currentRoom /\ wsSession' = wsSession]_vars

\* C22, amended: an unparseable inbound frame gets no reply, leaves the
\* sender connected and in its session and the registry unchanged; the express
\* relays forward nothing, the Durable Object, which parses nothing, forwards
\* the frame as it is to the other participant of the session.
C22_BadFrameDroppedOrPassedOn ==
  [][Unparseable(ev') =>
       /\ readyState' = readyState
       /\ rooms' = rooms /\ sessions' = sessions
       /\ currentRoom' = currentRoom /\ wsSession' = wsSession
       /\ \A x \in Conns :
            sent'[x] = IF /\ impl = "durable"
                          /\ x \in Remaining(ev'.conn)
                          /\ readyState[x] = "OPEN"
                       THEN <<ev'.data>>
                       ELSE <<>>]_vars

\* C22's case: a participant of a 2-participant session of an express relay,
\* the other participant's connection open, has just sent an unparseable frame.
C22_Witness ==
  /\ impl # "durable"
  /\ Unparseable(ev)
  /\ readyState[ev.conn] = "OPEN"
  /\ \E b \in Conns \ {ev.conn} :
       /\ Members(CurrentSession(ev.conn)) = {ev.conn, b}
       /\ readyState[b] = "OPEN"
  /\ sent = NoSends

\* The sessions whose participant set holds connection c.
SessionsOf(c) == {s \in SessionIds : c \in Members(s)}

\* C26: a connection is in the participant set of at most one session.
C26_InAtMostOneSession ==
  \A c \in Conns : Cardinality(SessionsOf(c)) <= 1

\* The part of C26 that part_004 and the Durable Object keep.
C26_InAtMostOneSessionWithoutRejoin ==
  impl \in {"joinRoom", "durable"} => \A c \in Conns : Cardinality(SessionsOf(c)) <= 1

\* ------------------------------------- claims about the chunks of a file
\* The chunk reads started in this step.
Queued == pendingReads' \ pendingReads

\* C27: offset never decreases and stays within 0..selectedFile.size; the
\* chunks queued by a run of the loop start at offset, each covers
\* [o, min(o + CHUNK_SIZE, size)) and ends where the next starts or where
\* offset is left, so the chunks queued over a transfer partition the file.
C27_ChunksPartitionTheFile ==
  [][/\ offset' >= offset
     /\ offset' >= 0
     /\ offset' <= fileSize
     /\ pendingReads' \ pendingReads # {} => offset \in Queued
     /\ \A o \in Queued :
          /\ o >= offset
          /\ ChunkEnd(o) > o
          /\ ChunkEnd(o) - o <= CHUNK_SIZE
          /\ ChunkEnd(o) = offset' \/ ChunkEnd(o) \in Queued
     /\ (Queued = {}) = (offset' = offset)]_vars

\* C27's case: a file whose last chunk is short has been queued whole, in more
\* than one chunk.
C27_Witness ==
  /\ fileSize > CHUNK_SIZE
  /\ fileSize % CHUNK_SIZE # 0
  /\ offset = fileSize
  /\ Cardinality(pendingReads) = NumChunks(fileSize)

\* A file-channel message is delivered to the receiver in this step.
Receipt == Len(fileWire') < Len(fileWire)

\* C28: receivedBytes is the sum of the byte lengths of the chunks in the
\* receiver's list, and every file-channel message is appended to the list in
\* the order of receipt, whether or not file-meta has arrived; nothing else
\* changes the list or the count.
C28_ReceivedBytesIsSumOfChunks ==
  [][/\ receivedBytes' = SumLen(chunks')
     /\ Receipt =>
          /\ chunks' = Append(chunks, Head(fileWire))
          /\ receivedBytes' = receivedBytes + ChunkLen(Head(fileWire))
     /\ ~Receipt => chunks' = chunks /\ receivedBytes' = receivedBytes]_vars

\* C28's case: two chunks were received before file-meta.
C28_Witness ==
  /\ fileMeta = NoMeta
  /\ Len(chunks) = 2
  /\ receivedBytes = SumLen(chunks)
  /\ receivedBytes > CHUNK_SIZE

\* C30: the file channel's bufferedAmount never exceeds the high-water mark
\* by more than one chunk.
C30_BufferedAtMostHighWaterPlusChunk ==
  BufferedAmount <= HIGH_WATER_MARK + CHUNK_SIZE

\* ------------------------------- claims about aborts and terminal states
\* The handler of `side` is called in this step with a transport state of
\* 'failed' or 'disconnected', or with the relay's peer-left.
AbortEvent(side) ==
  /\ tev'.side = side
  /\ \/ tev'.kind = "connectionstate" /\ tev'.state \in {"failed", "disconnected"}
     \/ tev'.kind = "peer-left"

C24_ReceiverCompleteIsTerminal ==
  [][rState = "complete" => rState' = "complete"]_vars

\* C25: once the sender shows complete, no later step changes its view.
C25_SenderCompleteIsTerminal ==
  [][sState = "complete" => sState' = "complete"]_vars

\* ------------------------------------------- claims about termination
\* A transport error: a connection event was handled, a side has closed its
\* peer connection or a socket, or the sender shows the error.
TransportError ==
  \/ sState = "error"
  \/ ~sPeer
  \/ ~rPeerOpen
  \/ sWs # "open"
  \/ rWs # "open"

\* The sender is done: every chunk was read and passed to fileChannel.send,
\* file-complete is sent (with it the view becomes complete) and neither the
\* low-water callback nor the drain timer is waiting.
SenderDone ==
  /\ sState = "complete"
  /\ offset = fileSize
  /\ pendingReads = {}
  /\ Len(sendLog) = NumChunks(fileSize)
  /\ ~lowArmed
  /\ ~drainTimer

\* The loop has queued every chunk (offset is at the end of the file),
\* file-complete is sent and with it the view is complete; nothing waits for
\* the low-water mark or for the drain.
QueuedAndComplete ==
  /\ sState = "complete"
  /\ offset = fileSize
  /\ ~lowArmed
  /\ ~drainTimer

\* A side closed its peer connection before the file channel had opened.
ClosedBeforeOpen ==
  /\ sState \in {"ready", "error"}
  /\ offset = 0
  /\ sendLog = <<>>
  /\ ~sPeer \/ ~rPeerOpen

Completes(q) == Cardinality({i \in 1..Len(q) : q[i] = CompleteMsg})

\* C32: once the sender shows the error, no step passes a chunk to
\* fileChannel.send, sends file-complete or starts a chunk read, and the view
\* stays the error view.
C32_ErrorStopsTheSender ==
  [][sState = "error" =>
       /\ sState' = "error"
       /\ sendLog' = sendLog
       /\ Len(fileQueue') <= Len(fileQueue)
       /\ Completes(ctrlWire') <= Completes(ctrlWire)
       /\ pendingReads' \subseteq pendingReads
       /\ offset' = offset
       /\ ~sChannelOpen']_vars

\* C32's case: the sender failed after it had passed some, not all, chunks to
\* the file channel, and the chunk reads left over have completed since
\* without a send.
C32_Witness ==
  /\ sState = "error"
  /\ sendLog # <<>>
  /\ Len(sendLog) < NumChunks(fileSize)
  /\ pendingReads = {}

\* --------------------------------------- claims about session isolation
\* The event of connection c handled in this step delivers to x only inside
\* one session: x is a participant of its current session, and that session
\* is the one c is in (after a join or a relay) or was in (before its close).
DeliversInside(c, x) ==
  /\ ~Falsy(CurrentSession(x))
  /\ x \in Members(CurrentSession(x))
  /\ IF ev'.kind = "close"
     THEN CurrentSession(c) = CurrentSession(x)
     ELSE /\ CurrentSession(c)' = CurrentSession(x)
          /\ c \in Members(CurrentSession(x))'

\* C33: whatever the relay delivers to a connection other than the one whose
\* event it handles (a payload, a joined or a disconnect notification) comes
\* from a participant of the recipient's current session.
C33_SessionsAreIsolated ==
  [][/\ \A c \in Conns, x \in Conns :
          (ev'.conn = c /\ x # c /\ sent'[x] # <<>>) => DeliversInside(c, x)
    ]_vars

\* The part of C33 that part_004 and the Durable Object keep.
C33_SessionsAreIsolatedWithoutRejoin ==
  [][/\ \A c \in Conns, x \in Conns :
          (impl \in {"joinRoom", "durable"} /\ ev'.conn = c /\ x # c /\ sent'[x] # <<>>)
            => DeliversInside(c, x)
    ]_vars

\* ----------------------------------- claims about concurrent refreshes
\* C31: the cached payload and the cached timestamp come from one issuer call
\* (the payload is the one that call produced, the timestamp the time it
\* began), and whenever the cache would be hit the payload's issuer call began
\* less than the TTL ago; a request answered from the cache gets that payload.
C31_CacheIsOneRefresh ==
  [][/\ iceCacheTime' = cachedBy'.began
     /\ iceCache' = IF cachedBy'.id = 0 THEN Null ELSE Payload(cachedBy'.id)
     /\ FreshCredentials' => clock' - cachedBy'.began < IceTtl
     /\ \A r \in Reqs :
          (GetsCredentials(r) /\ served'.pc = "done" /\ Truthy(served'.response)
             /\ served'.response # FallbackIce) =>
            /\ served'.response = Payload(cachedBy.id)
            /\ clock - cachedBy.began < IceTtl
     /\ \A r \in Reqs :
          (IssuerReturns(r) /\ iceCacheTime' # iceCacheTime) =>
            iceCacheTime' = req[r].now]_vars

\* C31's case: two refreshes overlapped and the one that began first has
\* returned last, so its payload and its older timestamp are in the cache.
C31_Witness ==
  /\ issued = 2
  /\ iceCache = Payload(2)
  /\ cachedBy = IssuerCall(2, iceCacheTime)
  /\ clock - iceCacheTime >= IceTtl
  /\ served.response = Payload(2)
  /\ served.issuerCalls = 1

====
